---- MODULE Spec2Model ----
(***************************************************************************)
(* rm_viewer web front end (src/rm_viewer/web/app.js): the viewer-session  *)
(* controller (openPdfViewer, the custom.close command, the registry init) *)
(* and the sort engine (sortItems, renderFolders, renderDocuments).        *)
(*                                                                         *)
(* The embedded viewer (EmbedPDF) is an external collaborator.  Its four   *)
(* capabilities are modelled by what the code can observe of them: whether *)
(* a capability object is there, the calls it receives (calls), and the    *)
(* layout-ready listeners it holds (layoutListeners).                      *)
(***************************************************************************)
EXTENDS Integers, Sequences, FiniteSets, TLC

VARIABLES
  registry,            \* progress of the async init block: "pending", "done", "failed"
  docManager,          \* TRUE iff the module variable holds a capability object
  scrollPlugin,
  searchPlugin,
  uiPlugin,
  currentPdfUrl,       \* JS value: Undefined or a string
  viewerDocCounter,
  currentDocId,        \* JS value: Null or a string
  display,             \* #pdf-viewer style.display: "none" or ""
  closing,             \* #pdf-viewer carries the class 'closing'
  transitionListeners, \* once-listeners for 'transitionend' on #pdf-viewer
  layoutListeners,     \* callbacks the scroll capability holds, in registration order
  calls,               \* every call the collaborators have received, in order
  opens,               \* arguments of every openPdfViewer call that allocated an id
  lastOpen,            \* how the latest openPdfViewer call ended
  foldersData,         \* the array of folders
  documentsData,       \* the array of documents
  currentSort,         \* { field, desc }
  sortedFolders,       \* what renderFolders last got from sortItems
  sortedDocs,          \* what renderDocuments last got from sortItems
  loaded               \* the module has run to its last line (the initial render)

viewerVars == <<registry, docManager, scrollPlugin, searchPlugin, uiPlugin,
                currentPdfUrl, viewerDocCounter, currentDocId, display, closing,
                transitionListeners, layoutListeners, calls, opens, lastOpen>>

sortVars == <<foldersData, documentsData, currentSort, sortedFolders, sortedDocs, loaded>>

vars == <<viewerVars, sortVars>>

----------------------------------------------------------------------------
(* Bounds of the model *)

MaxOpens == 2
MaxPendingCloses == 1
MaxItems == 3

----------------------------------------------------------------------------
(* JavaScript values that the handlers test for truthiness *)

Undefined == [t |-> "undefined"]
Null == [t |-> "null"]
Num(n) == [t |-> "number", n |-> n]
Str(s) == [t |-> "string", s |-> s]

\* ToBoolean of a JS value, as `&&`, `if` and `!` apply it
Truthy(v) ==
  CASE v.t = "undefined" -> FALSE
    [] v.t = "null"      -> FALSE
    [] v.t = "number"    -> v.n # 0
    [] v.t = "string"    -> v.s # ""

\* `pageNumber > 1`; reached only behind `pageNumber &&`
GreaterThanOne(v) == v.t = "number" /\ v.n > 1

\* 'viewer-doc-' + (++viewerDocCounter)
DocIdOf(n) == Str("viewer-doc-" \o ToString(n))

\* The documents whose click handler calls
\* openPdfViewer(doc.src, doc.openAt, doc.openAtSearch): one for every
\* combination of no page, page 1, a later page, and no term or a term
Doc(src, openAt, openAtSearch) ==
  [src |-> Str(src), openAt |-> openAt, openAtSearch |-> openAtSearch]

ClickableDocs ==
  {Doc("/plain.pdf", Undefined, Null),
   Doc("/first.pdf", Num(1), Null),
   Doc("/getting-started.pdf", Num(5), Null),
   Doc("/term.pdf", Undefined, Str("item")),
   Doc("/RMViewer.pdf", Num(1), Str("item")),
   Doc("/everybody_always.pdf", Num(5), Str("love"))}

\* A document of the embedded viewer that this code did not open
ForeignDocId == Str("other-doc")

\* documentId values a layout-ready event can carry
EventIds == {DocIdOf(n) : n \in 1..viewerDocCounter} \cup {ForeignDocId}

----------------------------------------------------------------------------
(* Calls on the collaborators *)

OpenDocumentUrl(url, docId) ==
  [op |-> "openDocumentUrl", url |-> url, documentId |-> docId, autoActivate |-> TRUE]
CloseDocument(docId) == [op |-> "closeDocument", documentId |-> docId]
ToggleSidebar(docId) ==
  [op |-> "toggleSidebar", documentId |-> docId, panel |-> "search-panel"]
SearchAllPages(docId, q) == [op |-> "searchAllPages", documentId |-> docId, query |-> q]
ScrollToPage(docId, p) ==
  [op |-> "scrollToPage", documentId |-> docId, pageNumber |-> p, behavior |-> "instant"]

----------------------------------------------------------------------------
(* The layout-ready observer of one openPdfViewer call *)

\* opening at searchQuery takes precedence over opening at pageNumber
NeedsSearch(searchQuery) == Truthy(searchQuery) /\ searchPlugin /\ uiPlugin

\* Variant: the page number is honoured whether or not a search is due
NeedsScrollDespiteSearch(pageNumber, searchQuery) ==
  /\ Truthy(pageNumber)
  /\ GreaterThanOne(pageNumber)
  /\ scrollPlugin

NeedsScroll(pageNumber, searchQuery) ==
  /\ ~NeedsSearch(searchQuery)
  /\ Truthy(pageNumber)
  /\ GreaterThanOne(pageNumber)
  /\ scrollPlugin

\* The closure: the variables of the call that the callback reads
Observer(docId, pageNumber, searchQuery) ==
  [docId |-> docId,
   needsSearch |-> NeedsSearch(searchQuery),
   needsScroll |-> NeedsScroll(pageNumber, searchQuery),
   pageNumber |-> pageNumber,
   searchQuery |-> searchQuery]

\* Variant: the callback does not look at the event's documentId
MatchesAny(o, documentId) == TRUE

\* event.documentId === docId
Matches(o, documentId) == documentId = o.docId

\* The callback body: the calls it makes for an event carrying documentId
ObserverCalls(o, documentId) ==
  IF Matches(o, documentId)
    THEN (IF o.needsSearch
            THEN <<ToggleSidebar(o.docId), SearchAllPages(o.docId, o.searchQuery)>>
            ELSE <<>>)
         \o (IF o.needsScroll THEN <<ScrollToPage(o.docId, o.pageNumber)>> ELSE <<>>)
    ELSE <<>>

\* `if (unsubscribe) unsubscribe()`: unsubscribeSet says whether the variable
\* has been assigned, which happens when onLayoutReady returns
Unsubscribes(o, documentId, unsubscribeSet) == Matches(o, documentId) /\ unsubscribeSet

\* The emitter hands the event to every listener in registration order
RECURSIVE EmitCalls(_, _)
EmitCalls(listeners, documentId) ==
  IF listeners = <<>> THEN <<>>
  ELSE ObserverCalls(Head(listeners), documentId) \o EmitCalls(Tail(listeners), documentId)

RECURSIVE EmitKeeps(_, _)
EmitKeeps(listeners, documentId) ==
  IF listeners = <<>> THEN <<>>
  ELSE (IF Unsubscribes(Head(listeners), documentId, TRUE) THEN <<>> ELSE <<Head(listeners)>>)
       \o EmitKeeps(Tail(listeners), documentId)

----------------------------------------------------------------------------
(* Initial state: module load, before viewer.registry resolves *)

ViewerInit ==
  /\ registry = "pending"
  /\ docManager = FALSE
  /\ scrollPlugin = FALSE
  /\ searchPlugin = FALSE
  /\ uiPlugin = FALSE
  /\ currentPdfUrl = Undefined
  /\ viewerDocCounter = 0
  /\ currentDocId = Null
  /\ display = "none"
  /\ closing = FALSE
  /\ transitionListeners = 0
  /\ layoutListeners = <<>>
  /\ calls = <<>>
  /\ opens = <<>>
  /\ lastOpen = "none"

\* let foldersData = []; let documentsData = []; currentSort = { field: 'modified', desc: false }
SortDeclared ==
  /\ foldersData = <<>>
  /\ documentsData = <<>>
  /\ currentSort = [field |-> "modified", desc |-> FALSE]
  /\ sortedFolders = [elems |-> <<>>, copied |-> TRUE]
  /\ sortedDocs = [elems |-> <<>>, copied |-> TRUE]
  /\ loaded = FALSE

Init == ViewerInit /\ SortDeclared

----------------------------------------------------------------------------
(* The async init block.  Each registry.getPlugin(id).provides() is a call *)
(* into the embedded viewer: dm, sc, se, ui say whether it yielded a       *)
(* capability object.  The block goes on to register the custom.close      *)
(* command and ends in ui.mergeSchema: it reaches its end only with ui.     *)

InitRegistry(dm, sc, se, ui) ==
  /\ registry = "pending"
  /\ docManager' = dm
  /\ scrollPlugin' = sc
  /\ searchPlugin' = se
  /\ uiPlugin' = ui
  /\ registry' = IF ui THEN "done" ELSE "failed"
  /\ UNCHANGED <<currentPdfUrl, viewerDocCounter, currentDocId, display, closing,
                 transitionListeners, layoutListeners, calls, opens, lastOpen>>
  /\ UNCHANGED sortVars

----------------------------------------------------------------------------
(* openPdfViewer(url, pageNumber, searchQuery).  sync is the documentId of *)
(* an event the emitter hands to the callback while onLayoutReady is still *)
(* running (Null: none).                                                   *)

\* Variant: no availability check on the document manager
ReturnsEarlyNever == FALSE

\* if (!docManager) return;
ReturnsEarly == ~docManager

\* Variant: the counter is read and never written back
NextDocCounterStuck(counter) == counter

\* ++viewerDocCounter
NextDocCounter(counter) == counter + 1

\* Variant: the previous session is closed before the new one is opened
ManagerCallsCloseFirst(url, docId, prevDocId) ==
  (IF Truthy(prevDocId) THEN <<CloseDocument(prevDocId)>> ELSE <<>>)
    \o <<OpenDocumentUrl(url, docId)>>

\* The manager calls without the close of the previous session
ManagerCallsNoClose(url, docId, prevDocId) == <<OpenDocumentUrl(url, docId)>>

\* docManager.openDocumentUrl(...); if (prevDocId) docManager.closeDocument(prevDocId);
ManagerCalls(url, docId, prevDocId) ==
  <<OpenDocumentUrl(url, docId)>>
    \o (IF Truthy(prevDocId) THEN <<CloseDocument(prevDocId)>> ELSE <<>>)

\* documentId values the emitter can replay while the call with the next id registers
SyncIds == {DocIdOf(n) : n \in 1..NextDocCounter(viewerDocCounter)} \cup {ForeignDocId}

OpenPdfViewer(url, pageNumber, searchQuery, sync) ==
  IF ReturnsEarly
    THEN /\ sync = Null
         /\ lastOpen' = "returnedEarly"
         /\ UNCHANGED <<registry, docManager, scrollPlugin, searchPlugin, uiPlugin,
                        currentPdfUrl, viewerDocCounter, currentDocId, display,
                        closing, transitionListeners, layoutListeners, calls, opens>>
         /\ UNCHANGED sortVars
    ELSE
      LET prevDocId == currentDocId
          docId == DocIdOf(NextDocCounter(viewerDocCounter))
          o == Observer(docId, pageNumber, searchQuery)
          registers == o.needsScroll \/ o.needsSearch
          \* scrollPlugin.onLayoutReady on an undefined scrollPlugin: TypeError
          throws == registers /\ ~scrollPlugin
          registered == registers /\ ~throws
          syncCalls == IF sync # Null THEN ObserverCalls(o, sync) ELSE <<>>
          syncGone == sync # Null /\ Unsubscribes(o, sync, FALSE)
      IN
      /\ viewerDocCounter < MaxOpens
      /\ sync # Null => registered /\ sync \in SyncIds
      /\ viewerDocCounter' = NextDocCounter(viewerDocCounter)
      /\ currentDocId' = docId
      /\ calls' = calls \o ManagerCalls(url, docId, prevDocId) \o syncCalls
      /\ currentPdfUrl' = url
      /\ display' = ""
      /\ closing' = FALSE
      /\ layoutListeners' = IF registered /\ ~syncGone
                              THEN Append(layoutListeners, o)
                              ELSE layoutListeners
      /\ opens' = Append(opens, [url |-> url, pageNumber |-> pageNumber,
                                 searchQuery |-> searchQuery])
      /\ lastOpen' = IF throws THEN "threw" ELSE "returned"
      /\ UNCHANGED <<registry, docManager, scrollPlugin, searchPlugin, uiPlugin,
                     transitionListeners>>
      /\ UNCHANGED sortVars

----------------------------------------------------------------------------
(* The embedded viewer emits a layout-ready event carrying documentId *)

LayoutReady(documentId) ==
  /\ scrollPlugin
  /\ documentId \in EventIds
  /\ calls' = calls \o EmitCalls(layoutListeners, documentId)
  /\ layoutListeners' = EmitKeeps(layoutListeners, documentId)
  /\ UNCHANGED <<registry, docManager, scrollPlugin, searchPlugin, uiPlugin,
                 currentPdfUrl, viewerDocCounter, currentDocId, display, closing,
                 transitionListeners, opens, lastOpen>>
  /\ UNCHANGED sortVars

----------------------------------------------------------------------------
(* The custom.close command, and the transitionend event it waits for *)

CloseAction ==
  /\ registry = "done"
  /\ display = ""
  /\ transitionListeners < MaxPendingCloses
  /\ closing' = TRUE
  /\ transitionListeners' = transitionListeners + 1
  /\ UNCHANGED <<registry, docManager, scrollPlugin, searchPlugin, uiPlugin,
                 currentPdfUrl, viewerDocCounter, currentDocId, display,
                 layoutListeners, calls, opens, lastOpen>>
  /\ UNCHANGED sortVars

TransitionEnd ==
  /\ transitionListeners > 0
  /\ display' = "none"
  /\ closing' = FALSE
  /\ transitionListeners' = 0
  /\ UNCHANGED <<registry, docManager, scrollPlugin, searchPlugin, uiPlugin,
                 currentPdfUrl, viewerDocCounter, currentDocId,
                 layoutListeners, calls, opens, lastOpen>>
  /\ UNCHANGED sortVars

----------------------------------------------------------------------------

DoInitRegistry == \E dm, sc, se, ui \in BOOLEAN : InitRegistry(dm, sc, se, ui)

SyncChoices == {Null, ForeignDocId} \cup {DocIdOf(n) : n \in 1..MaxOpens}

DoOpenPdfViewer ==
  \E doc \in ClickableDocs, sync \in SyncChoices :
    OpenPdfViewer(doc.src, doc.openAt, doc.openAtSearch, sync)

DoLayoutReady == \E documentId \in EventIds : LayoutReady(documentId)

Next ==
  \/ DoInitRegistry
  \/ DoOpenPdfViewer
  \/ DoLayoutReady
  \/ CloseAction
  \/ TransitionEnd

Spec == Init /\ [][Next]_vars

----------------------------------------------------------------------------
(* The sort engine: sortItems and the two render functions that call it    *)

NaN == [t |-> "NaN"]

\* new Date(s).getTime(), in seconds: every date string here has whole seconds
\* and no zone, so order and sign of differences are those of the millisecond
\* values.  A string that is no date gives NaN.
GetTime(s) ==
  CASE s = "2025-01-30T10:30:00" -> Num(1738233000)
    [] s = "2025-01-28T16:45:00" -> Num(1738082700)
    [] s = "2025-01-15T11:00:00" -> Num(1736938800)
    [] s = "2025-01-31T08:00:00" -> Num(1738310400)
    [] s = "2025-01-20T15:30:00" -> Num(1737387000)
    [] s = "2024-06-15T14:00:00" -> Num(1718460000)
    [] s = "2024-08-10T18:00:00" -> Num(1723312800)
    [] OTHER -> NaN

\* The subtraction with its operands exchanged
MinusSwapped(a, b) == IF a.t = "NaN" \/ b.t = "NaN" THEN NaN ELSE Num(b.n - a.n)

\* valA - valB on JS numbers
Minus(a, b) == IF a.t = "NaN" \/ b.t = "NaN" THEN NaN ELSE Num(a.n - b.n)

\* Names are sequences of characters over this alphabet
LowerCase == <<"a", "b", "c">>
UpperCase == <<"A", "B", "C">>

CharIndex(c) ==
  CHOOSE i \in 1..Len(LowerCase) : LowerCase[i] = c \/ UpperCase[i] = c

\* name.toLowerCase()
ToLowerCase(name) == [i \in 1..Len(name) |-> LowerCase[CharIndex(name[i])]]

\* x.localeCompare(y) on lower-case names: the first differing letter
\* decides, and a proper prefix sorts first
RECURSIVE LocaleCompare(_, _)
LocaleCompare(x, y) ==
  IF x = <<>> /\ y = <<>> THEN Num(0)
  ELSE IF x = <<>> THEN Num(-1)
  ELSE IF y = <<>> THEN Num(1)
  ELSE IF CharIndex(Head(x)) < CharIndex(Head(y)) THEN Num(-1)
  ELSE IF CharIndex(Head(x)) > CharIndex(Head(y)) THEN Num(1)
  ELSE LocaleCompare(Tail(x), Tail(y))

\* The comparator handed to Array.prototype.sort
Comparator(a, b, field, desc, isFolder) ==
  CASE field = "modified" ->
         LET valA == GetTime(a.lastModified)  valB == GetTime(b.lastModified)
         IN IF desc THEN Minus(valB, valA) ELSE Minus(valA, valB)
    [] field = "opened" ->
         LET valA == GetTime(a.lastOpened)  valB == GetTime(b.lastOpened)
         IN IF desc THEN Minus(valB, valA) ELSE Minus(valA, valB)
    [] field = "created" ->
         LET valA == GetTime(a.dateCreated)  valB == GetTime(b.dateCreated)
         IN IF desc THEN Minus(valB, valA) ELSE Minus(valA, valB)
    [] field = "size" ->
         LET valA == IF isFolder THEN Num(a.totalSize) ELSE Num(a.fileSize)
             valB == IF isFolder THEN Num(b.totalSize) ELSE Num(b.fileSize)
         IN IF desc THEN Minus(valB, valA) ELSE Minus(valA, valB)
    [] field = "pages" ->
         LET valA == IF isFolder THEN Num(a.itemCount) ELSE Num(a.pageCount)
             valB == IF isFolder THEN Num(b.itemCount) ELSE Num(b.pageCount)
         IN IF desc THEN Minus(valB, valA) ELSE Minus(valA, valB)
    [] field = "alpha" ->
         LET valA == ToLowerCase(a.name)  valB == ToLowerCase(b.name)
         IN IF desc THEN LocaleCompare(valB, valA) ELSE LocaleCompare(valA, valB)
    [] OTHER -> Num(0)

\* How Array.prototype.sort reads a comparator result: NaN counts as 0
Sign(v) == IF v.t = "NaN" THEN 0 ELSE IF v.n < 0 THEN -1 ELSE IF v.n > 0 THEN 1 ELSE 0

\* The comparator read as if every sort were ascending
CmpIgnoringDesc(a, b, field, desc, isFolder) == Sign(Comparator(a, b, field, FALSE, isFolder))

Cmp(a, b, field, desc, isFolder) == Sign(Comparator(a, b, field, desc, isFolder))

\* Array.prototype.sort is a stable sort when the comparator is a consistent
\* comparator for the elements; otherwise the order is implementation-defined
ConsistentComparator(items, field, desc, isFolder) ==
  LET S == {items[i] : i \in 1..Len(items)}
      c(a, b) == Cmp(a, b, field, desc, isFolder)
  IN \A a, b, x \in S :
       /\ c(a, a) = 0
       /\ c(a, b) = -c(b, a)
       /\ (c(a, b) = 0 /\ c(b, x) = 0) => c(a, x) = 0
       /\ (c(a, b) < 0 /\ c(b, x) < 0) => c(a, x) < 0

\* x goes behind every element that does not sort after it
RECURSIVE Insert(_, _, _, _, _)
Insert(x, sorted, field, desc, isFolder) ==
  IF sorted = <<>> THEN <<x>>
  ELSE IF Cmp(Head(sorted), x, field, desc, isFolder) > 0 THEN <<x>> \o sorted
  ELSE <<Head(sorted)>> \o Insert(x, Tail(sorted), field, desc, isFolder)

RECURSIVE StableSort(_, _, _, _)
StableSort(items, field, desc, isFolder) ==
  IF items = <<>> THEN <<>>
  ELSE Insert(items[Len(items)],
              StableSort(SubSeq(items, 1, Len(items) - 1), field, desc, isFolder),
              field, desc, isFolder)

Reorderings(items) ==
  LET n == Len(items)
      P == {p \in [1..n -> 1..n] : \A i, j \in 1..n : p[i] = p[j] => i = j}
  IN {[i \in 1..n |-> items[p[i]]] : p \in P}

\* The orders .sort(comparator) can leave an array with these elements in
SortOrders(items, field, desc, isFolder) ==
  IF ConsistentComparator(items, field, desc, isFolder)
    THEN {StableSort(items, field, desc, isFolder)}
    ELSE Reorderings(items)

\* Variant: items.sort(...) on the caller's array, no copy
SortItemsInPlace(items, field, desc, isFolder) ==
  {[items |-> s, sorted |-> [elems |-> s, copied |-> FALSE]] :
     s \in SortOrders(items, field, desc, isFolder)}

\* sortItems(items, field, desc, isFolder): [...items] is a new array, which
\* is sorted and returned.  An outcome is the caller's array after the call
\* and the array returned.
SortItems(items, field, desc, isFolder) ==
  {[items |-> items, sorted |-> [elems |-> s, copied |-> TRUE]] :
     s \in SortOrders(items, field, desc, isFolder)}

\* The data-sort values of the sort options, and one that sortItems does not know
SortFields == {"modified", "opened", "created", "size", "pages", "alpha"}
SortOptions == SortFields \cup {"type"}

Folder(name, itemCount, lastModified, lastOpened, dateCreated, totalSize) ==
  [name |-> name, itemCount |-> itemCount, lastModified |-> lastModified,
   lastOpened |-> lastOpened, dateCreated |-> dateCreated, totalSize |-> totalSize]

Document(name, pageCount, lastModified, lastOpened, dateCreated, fileSize) ==
  [name |-> name, pageCount |-> pageCount, lastModified |-> lastModified,
   lastOpened |-> lastOpened, dateCreated |-> dateCreated, fileSize |-> fileSize]

\* Folders and documents the arrays are filled from: keys that tie, names that
\* differ only in case, and a date that does not parse
Folders ==
  {Folder(<<"B">>, 1, "2025-01-30T10:30:00", "2025-01-31T08:00:00", "2024-06-15T14:00:00", 45000000),
   Folder(<<"A">>, 2, "2025-01-28T16:45:00", "2025-01-31T08:00:00", "2024-08-10T18:00:00", 45000000),
   Folder(<<"a", "b">>, 2, "2025-01-15T11:00:00", "2025-01-20T15:30:00", "unknown", 0)}

Documents ==
  {Document(<<"b">>, 9, "2025-01-30T10:30:00", "2025-01-31T08:00:00", "2024-06-15T14:00:00", 500000),
   Document(<<"B">>, 2, "2025-01-28T16:45:00", "2025-01-20T15:30:00", "2024-06-15T14:00:00", 2000000),
   Document(<<"a">>, 9, "", "2025-01-20T15:30:00", "2024-08-10T18:00:00", 500000)}

SeqsUpTo(S, n) == UNION {[1..k -> S] : k \in 0..n}

\* refreshView(): renderFolders(foldersData); renderDocuments(documentsData),
\* each sorting by the sort state, which the caller passes as it stands
RefreshView(sort) ==
  \E f \in SortItems(foldersData, sort.field, sort.desc, TRUE),
     d \in SortItems(documentsData, sort.field, sort.desc, FALSE) :
    /\ foldersData' = f.items
    /\ sortedFolders' = f.sorted
    /\ documentsData' = d.items
    /\ sortedDocs' = d.sorted

\* The module's last lines: foldersData = [...]; documentsData = [...] have
\* filled the arrays
SortInit ==
  /\ ViewerInit
  /\ \E k \in 0..MaxItems :
       /\ foldersData \in SeqsUpTo(Folders, k)
       /\ documentsData \in SeqsUpTo(Documents, MaxItems - k)
  /\ currentSort = [field |-> "modified", desc |-> FALSE]
  /\ sortedFolders = [elems |-> <<>>, copied |-> TRUE]
  /\ sortedDocs = [elems |-> <<>>, copied |-> TRUE]
  /\ loaded = FALSE

\* refreshView() at the end of the module
InitialRender ==
  /\ ~loaded
  /\ loaded' = TRUE
  /\ RefreshView(currentSort)
  /\ UNCHANGED currentSort
  /\ UNCHANGED viewerVars

\* Click on a sort option: the selected option toggles its direction, another
\* one becomes the field, ascending; then refreshView()
SortOptionClick(sortField) ==
  /\ loaded
  /\ LET wasSelected == sortField = currentSort.field
         sort == IF wasSelected
                   THEN [field |-> currentSort.field, desc |-> ~currentSort.desc]
                   ELSE [field |-> sortField, desc |-> FALSE]
     IN /\ currentSort' = sort
        /\ RefreshView(sort)
  /\ UNCHANGED loaded
  /\ UNCHANGED viewerVars

DoSortOptionClick == \E sortField \in SortOptions : SortOptionClick(sortField)

SortNext ==
  \/ InitialRender
  \/ DoSortOptionClick

SortSpec == SortInit /\ [][SortNext]_vars

----------------------------------------------------------------------------
(* Vocabulary of the properties *)

\* The calls a step adds to the log
NewCalls == SubSeq(calls', Len(calls) + 1, Len(calls'))

NavOps == {"toggleSidebar", "searchAllPages", "scrollToPage"}

CountOf(docId, op) == Len(SelectSeq(calls, LAMBDA c : c.documentId = docId /\ c.op = op))

\* The counter value inside an id string
IdNumber(docId) == CHOOSE n \in 0..(MaxOpens + 2) : DocIdOf(n) = docId

AllPresent == docManager /\ scrollPlugin /\ searchPlugin /\ uiPlugin

----------------------------------------------------------------------------
(* C1: an openPdfViewer call made while a session is current, with the     *)
(* document manager there, sends the manager openDocumentUrl for the new   *)
(* id (autoActivate true) and then closeDocument for the previous id, and  *)
(* for no other id; afterwards currentPdfUrl is the opened url and         *)
(* currentDocId the new id.                                                *)

C1_OpenThenClosePrevious ==
  [][\A doc \in ClickableDocs, sync \in SyncChoices :
       (OpenPdfViewer(doc.src, doc.openAt, doc.openAtSearch, sync)
          /\ docManager /\ Truthy(currentDocId))
       => /\ currentDocId' # currentDocId
          /\ Len(NewCalls) >= 2
          /\ NewCalls[1] = OpenDocumentUrl(doc.src, currentDocId')
          /\ NewCalls[1].autoActivate
          /\ NewCalls[2] = CloseDocument(currentDocId)
          /\ \A i \in 3..Len(NewCalls) :
               NewCalls[i].op \notin {"openDocumentUrl", "closeDocument"}
          /\ currentPdfUrl' = doc.src
          /\ currentDocId' = DocIdOf(viewerDocCounter')]_vars

C1_Witness ==
  /\ viewerDocCounter = 2
  /\ opens[1].url = Str("/getting-started.pdf")
  /\ opens[2].url = Str("/plain.pdf")
  /\ \E i \in 1..(Len(calls) - 1) :
       /\ calls[i] = OpenDocumentUrl(Str("/plain.pdf"), DocIdOf(2))
       /\ calls[i + 1] = CloseDocument(DocIdOf(1))
  /\ currentPdfUrl = Str("/plain.pdf")
  /\ currentDocId = DocIdOf(2)

----------------------------------------------------------------------------
(* C2: scrollToPage(id, page, 'instant') is issued only by a step that     *)
(* delivers a layout-ready event whose documentId is id: a step delivering *)
(* an event with another documentId, or none, adds no scrollToPage for id. *)

NewScrollsOnlyFor(documentId) ==
  \A i \in 1..Len(NewCalls) :
    NewCalls[i].op = "scrollToPage"
      => /\ NewCalls[i].documentId = documentId
         /\ NewCalls[i].behavior = "instant"
         /\ NewCalls[i].pageNumber = opens'[IdNumber(documentId)].pageNumber

C2_ScrollOnlyOnMatchingLayoutReady ==
  [][/\ \A e \in EventIds : LayoutReady(e) => NewScrollsOnlyFor(e)
     /\ \A doc \in ClickableDocs, sync \in SyncChoices :
          OpenPdfViewer(doc.src, doc.openAt, doc.openAtSearch, sync)
            => NewScrollsOnlyFor(sync)
     /\ (\E i \in 1..Len(NewCalls) : NewCalls[i].op = "scrollToPage")
          => \/ \E e \in EventIds : LayoutReady(e)
             \/ \E doc \in ClickableDocs, sync \in SyncChoices \ {Null} :
                  OpenPdfViewer(doc.src, doc.openAt, doc.openAtSearch, sync)]_vars

\* Session 2 was opened at page 5 with no term while session 1's observer was
\* still registered, and its scroll has been issued
C2_Witness ==
  /\ Len(opens) = 2
  /\ opens[2].pageNumber = Num(5) /\ opens[2].searchQuery = Null
  /\ CountOf(DocIdOf(2), "scrollToPage") = 1
  /\ \E i \in 1..Len(layoutListeners) : layoutListeners[i].docId = DocIdOf(1)

----------------------------------------------------------------------------
(* C3: for a session opened with a page number above 1 and a non-empty     *)
(* search term, all collaborators there, the navigation calls ever issued  *)
(* for it are toggleSidebar(search-panel) and searchAllPages(term); no     *)
(* scrollToPage is ever issued for it.                                     *)

C3_SearchSuppressesScroll ==
  \A n \in 1..Len(opens) :
    (AllPresent /\ GreaterThanOne(opens[n].pageNumber) /\ Truthy(opens[n].searchQuery))
    => \A i \in 1..Len(calls) :
         (calls[i].documentId = DocIdOf(n) /\ calls[i].op \in NavOps)
         => \/ calls[i] = ToggleSidebar(DocIdOf(n))
            \/ calls[i] = SearchAllPages(DocIdOf(n), opens[n].searchQuery)

C3_Witness ==
  /\ AllPresent
  /\ Len(opens) >= 1
  /\ opens[1].pageNumber = Num(5) /\ opens[1].searchQuery = Str("love")
  /\ CountOf(DocIdOf(1), "toggleSidebar") = 1
  /\ CountOf(DocIdOf(1), "searchAllPages") = 1
  /\ layoutListeners = <<>>

----------------------------------------------------------------------------
(* C4: an openPdfViewer call made while the document manager is missing    *)
(* changes nothing: counter, current id, current url, the calls received,  *)
(* the viewer's visibility and the registered observers stay as they were. *)

C4_NoManagerNoEffect ==
  [][\A doc \in ClickableDocs, sync \in SyncChoices :
       (OpenPdfViewer(doc.src, doc.openAt, doc.openAtSearch, sync) /\ ~docManager)
       => UNCHANGED <<viewerDocCounter, currentDocId, currentPdfUrl, calls,
                      display, closing, layoutListeners, opens>>]_vars

\* The init block has run without yielding a document manager, and a click
\* has gone through openPdfViewer
C4_Witness ==
  /\ registry # "pending"
  /\ ~docManager
  /\ scrollPlugin /\ searchPlugin /\ uiPlugin
  /\ lastOpen = "returnedEarly"
  /\ viewerDocCounter = 0 /\ calls = <<>>

----------------------------------------------------------------------------
(* C5: with the document manager there, openPdfViewer ends without an      *)
(* error whichever of the scroll, search and UI collaborators are missing. *)

C5_NeverThrows == lastOpen # "threw"

----------------------------------------------------------------------------
(* C6: the ids handed to the manager are strictly increasing in the order  *)
(* of the opens, so no two opens share an id, and no two registered        *)
(* observers filter on the same id.                                        *)

OpenedIds == SelectSeq(calls, LAMBDA c : c.op = "openDocumentUrl")

C6_IdsStrictlyIncreasing ==
  /\ \A i, j \in 1..Len(OpenedIds) :
       i < j => IdNumber(OpenedIds[i].documentId) < IdNumber(OpenedIds[j].documentId)
  /\ \A i, j \in 1..Len(layoutListeners) :
       i < j => IdNumber(layoutListeners[i].docId) < IdNumber(layoutListeners[j].docId)
  /\ currentDocId # Null =>
       \A i \in 1..Len(layoutListeners) :
         IdNumber(layoutListeners[i].docId) <= IdNumber(currentDocId)

C6_Witness ==
  /\ Len(OpenedIds) = 2
  /\ Len(layoutListeners) = 2
  /\ OpenedIds[1].url = OpenedIds[2].url

----------------------------------------------------------------------------
(* C7: the observer of one open performs its search or scroll at most      *)
(* once, and is no longer registered once it has performed it.             *)

C7_ObserverFiresOnce ==
  \A n \in 1..Len(opens) :
    /\ CountOf(DocIdOf(n), "scrollToPage") + CountOf(DocIdOf(n), "searchAllPages") <= 1
    /\ CountOf(DocIdOf(n), "scrollToPage") + CountOf(DocIdOf(n), "searchAllPages") >= 1
         => \A i \in 1..Len(layoutListeners) : layoutListeners[i].docId # DocIdOf(n)

----------------------------------------------------------------------------
(* C8: no observer of a superseded session is still registered.            *)

C8_NoSupersededObserver ==
  \A i \in 1..Len(layoutListeners) : layoutListeners[i].docId = currentDocId

----------------------------------------------------------------------------
(* C9: no search, panel reveal or scroll is issued for an id that is not   *)
(* the current session's.                                                  *)

C9_NoActionForSuperseded ==
  [][\A i \in 1..Len(NewCalls) :
       NewCalls[i].op \in NavOps => NewCalls[i].documentId = currentDocId']_vars

----------------------------------------------------------------------------
(* C10: sortItems leaves the array it is given as it was, element for      *)
(* element, and returns another array holding the same items, each as      *)
(* often as the input holds it.                                            *)

Occurrences(x, seq) == Cardinality({i \in 1..Len(seq) : seq[i] = x})

IsPermutation(s, t) ==
  /\ Len(s) = Len(t)
  /\ \A i \in 1..Len(t) : Occurrences(t[i], s) = Occurrences(t[i], t)

C10_SortDoesNotMutateInput ==
  [][(InitialRender \/ DoSortOptionClick)
       => /\ foldersData' = foldersData
          /\ documentsData' = documentsData
          /\ sortedFolders'.copied
          /\ sortedDocs'.copied
          /\ IsPermutation(sortedFolders'.elems, foldersData)
          /\ IsPermutation(sortedDocs'.elems, documentsData)]_vars

\* A render has put three folders, one of them twice over, into another order
C10_Witness ==
  /\ loaded
  /\ Len(foldersData) = 3
  /\ foldersData[1] = foldersData[3]
  /\ foldersData[1] # foldersData[2]
  /\ sortedFolders.elems # foldersData
  /\ sortedFolders.elems[1] = foldersData[2]
  /\ currentSort = [field |-> "alpha", desc |-> FALSE]

(* C11: for the fields size and pages the items come out ordered by the    *)
(* field's key, totalSize or itemCount for a folder and fileSize or        *)
(* pageCount for a document: never falling from one item to the next when  *)
(* ascending, never rising when descending, and the items that share a key *)
(* stand in the order the input had them.                                  *)

NumericFields == {"size", "pages"}

NumericKey(item, field, isFolder) ==
  IF field = "size"
    THEN (IF isFolder THEN item.totalSize ELSE item.fileSize)
    ELSE (IF isFolder THEN item.itemCount ELSE item.pageCount)

OrderedByKey(sorted, field, desc, isFolder) ==
  \A i \in 1..(Len(sorted) - 1) :
    LET k1 == NumericKey(sorted[i], field, isFolder)
        k2 == NumericKey(sorted[i + 1], field, isFolder)
    IN IF desc THEN k1 >= k2 ELSE k1 <= k2

WithKey(seq, key, field, isFolder) ==
  LET HasKey(item) == NumericKey(item, field, isFolder) = key
  IN SelectSeq(seq, HasKey)

TiesKeepInputOrder(sorted, items, field, isFolder) ==
  \A i \in 1..Len(items) :
    LET key == NumericKey(items[i], field, isFolder)
    IN WithKey(sorted, key, field, isFolder) = WithKey(items, key, field, isFolder)

C11_NumericFieldsOrdered ==
  (loaded /\ currentSort.field \in NumericFields)
    => /\ OrderedByKey(sortedFolders.elems, currentSort.field, currentSort.desc, TRUE)
       /\ OrderedByKey(sortedDocs.elems, currentSort.field, currentSort.desc, FALSE)
       /\ TiesKeepInputOrder(sortedFolders.elems, foldersData, currentSort.field, TRUE)
       /\ TiesKeepInputOrder(sortedDocs.elems, documentsData, currentSort.field, FALSE)

\* Three documents sorted by size descending: the two of 500000 bytes, unlike
\* in name, stay in input order behind the larger one that came between them
C11_Witness ==
  /\ loaded
  /\ currentSort = [field |-> "size", desc |-> TRUE]
  /\ Len(documentsData) = 3
  /\ documentsData[1].fileSize = documentsData[3].fileSize
  /\ documentsData[1] # documentsData[3]
  /\ documentsData[2].fileSize > documentsData[1].fileSize
  /\ sortedDocs.elems = <<documentsData[2], documentsData[1], documentsData[3]>>

(* C12: for every collection and every sort field but alpha, sorting       *)
(* descending gives exactly the reverse of sorting ascending. A click on   *)
(* the selected option sorts the same collection again in the other        *)
(* direction, so the two results stand side by side across that step.      *)

Reverse(seq) == [i \in 1..Len(seq) |-> seq[Len(seq) + 1 - i]]

DirectionToggled ==
  /\ loaded
  /\ currentSort.field \in SortFields \ {"alpha"}
  /\ currentSort'.field = currentSort.field
  /\ currentSort'.desc # currentSort.desc

C12_DescendingIsReverse ==
  [][DirectionToggled
       => /\ sortedFolders'.elems = Reverse(sortedFolders.elems)
          /\ sortedDocs'.elems = Reverse(sortedDocs.elems)]_vars

(* C12, amended: the same, for the collections whose items all have a key  *)
(* for the field that is a number and differs from every other item's key. *)

SortKey(item, field, isFolder) ==
  CASE field = "modified" -> GetTime(item.lastModified)
    [] field = "opened" -> GetTime(item.lastOpened)
    [] field = "created" -> GetTime(item.dateCreated)
    [] OTHER -> Num(NumericKey(item, field, isFolder))

KeysDiffer(items, field, isFolder) ==
  /\ \A i \in 1..Len(items) : SortKey(items[i], field, isFolder).t = "number"
  /\ \A i, j \in 1..Len(items) :
       i # j => SortKey(items[i], field, isFolder).n # SortKey(items[j], field, isFolder).n

C12_DescendingIsReverseWhenKeysDiffer ==
  [][DirectionToggled
       => /\ KeysDiffer(foldersData, currentSort.field, TRUE)
               => sortedFolders'.elems = Reverse(sortedFolders.elems)
          /\ KeysDiffer(documentsData, currentSort.field, FALSE)
               => sortedDocs'.elems = Reverse(sortedDocs.elems)]_vars

\* Three folders with three different modification dates, given oldest in
\* the middle, have been sorted ascending and then, by a second click on the
\* selected option, descending
C12_Witness ==
  /\ loaded
  /\ currentSort = [field |-> "modified", desc |-> TRUE]
  /\ Len(foldersData) = 3
  /\ KeysDiffer(foldersData, "modified", TRUE)
  /\ sortedFolders.elems = <<foldersData[3], foldersData[1], foldersData[2]>>
  /\ sortedFolders.elems # foldersData

(* C13: from the first openDocumentUrl on, the document manager holds at   *)
(* least one open session after every call it has received; and in every   *)
(* state the handlers leave behind after an open, the sessions open in the *)
(* manager are the current one alone: each earlier id has been closed      *)
(* exactly once, the current id never.                                     *)

\* The sessions the manager holds open after the first k calls
OpenSessions(k) ==
  {calls[i].documentId : i \in
     {i \in 1..k : /\ calls[i].op = "openDocumentUrl"
                   /\ ~\E j \in 1..k : /\ calls[j].op = "closeDocument"
                                       /\ calls[j].documentId = calls[i].documentId}}

C13_OneSessionOpen ==
  /\ \A k \in 1..Len(calls) :
       (\E i \in 1..k : calls[i].op = "openDocumentUrl") => OpenSessions(k) # {}
  /\ viewerDocCounter > 0
       => /\ OpenSessions(Len(calls)) = {currentDocId}
          /\ \A n \in 1..viewerDocCounter :
               CountOf(DocIdOf(n), "closeDocument")
                 = IF DocIdOf(n) = currentDocId THEN 0 ELSE 1

\* Two documents have been opened, the first closed in the manager, and the
\* viewer has since been closed by its button and hidden
C13_Witness ==
  /\ viewerDocCounter = 2
  /\ currentDocId = DocIdOf(2)
  /\ CountOf(DocIdOf(1), "closeDocument") = 1
  /\ display = "none"

(* C14: an openPdfViewer call that finds the document manager leaves the   *)
(* viewer shown, and the viewer stays shown until the close action is      *)
(* next invoked, also when the call came while an earlier close was        *)
(* waiting for its transition to end and the transitionend event arrives   *)
(* after the call. The class 'closing' is put on by the close action only  *)
(* and taken off by an open, so a shown viewer without it has seen no      *)
(* close action since the latest open.                                     *)

C14_ShownUntilNextClose ==
  [][/\ viewerDocCounter' # viewerDocCounter => display' = ""
     /\ (viewerDocCounter > 0 /\ display = "" /\ ~closing) => display' = ""]_vars

(* C15: the close action ends the session. Once it has run to its end, the *)
(* viewer hidden again after an open, there is no current session: the     *)
(* next openPdfViewer sends the manager no closeDocument, and a            *)
(* layout-ready event for the closed session brings no search and no       *)
(* scroll call.                                                            *)

ViewerClosed == viewerDocCounter > 0 /\ display = "none"

C15_CloseEndsSession ==
  [][ViewerClosed
       => /\ currentDocId = Null
          /\ \A i \in 1..Len(NewCalls) :
               /\ NewCalls[i].op # "closeDocument"
               /\ NewCalls[i].op \in NavOps => NewCalls[i].documentId # currentDocId]_vars

====
